---- MODULE Spec2Model ----
(***************************************************************************)
(* Model of the drift-orchestration engine of gha-atlantis-drift-detection *)
(* (package drifter): the scheduler drainAndExecute, the per-directory     *)
(* drift check of FindDriftedWorkspaces and the per-directory              *)
(* reconciliation of FindExtraWorkspaces.                                  *)
(*                                                                         *)
(* Strings of the program are sequences of byte codes where the code       *)
(* looks inside them (directory names, allow-list patterns) and TLA+       *)
(* strings where it only compares them for equality (workspace names).     *)
(* Every collaborator call (cache, plan query, terraform, notification)    *)
(* and every shared-memory operation is one step; the outcome of a         *)
(* collaborator call is drawn when the call is made.                       *)
(***************************************************************************)
EXTENDS Integers, Sequences, FiniteSets, TLC

VARIABLES
  ParallelRuns,           \* Drifter.ParallelRuns
  DirectoryAllowlist,     \* Drifter.DirectoryAllowlist
  SkipWorkspaceCheck,     \* Drifter.SkipWorkspaceCheck
  ws,                     \* atlantis.DirectoriesWithWorkspaces: dir -> workspaces
  now,                    \* the wall clock read by time.Since / time.Now
  cache,                  \* Drifter.ResultCache, drift-check records by (dir, workspace)
  DriftedWorkspaceCount,  \* Drifter.DriftedWorkspaceCount
  notifs,                 \* calls received by Drifter.Notification, in order
  klog,                   \* per (dir, workspace): the collaborator calls made for it
  planned,                \* per (dir, workspace): what PlanSummary answered for it
  cache0,                 \* the drift-check records when the pass began
  wcache,                 \* Drifter.ResultCache, remote-workspace records by dir
  wcache0,                \* the remote-workspace records when the pass began
  dlog,                   \* per dir: the collaborator calls of its reconciliation
  listed,                 \* per dir: what Terraform.ListWorkspaces answered for it
  pass,                   \* which pass built toRun: "drift" or "extra"
  pc,                     \* per thread: position in drainAndExecute
  cur,                    \* per thread: index in toRun of the item it runs (0: none)
  wi,                     \* per thread: index of the loop inside the item
  stage,                  \* per thread: next call of the item
  pr,                     \* per thread: the local pr of the drift check
  remote,                 \* per thread: the local remoteWorkspaces of the reconciliation
  rv,                     \* per thread: value its goroutine function returned
  fpc,                    \* the feeder goroutine's position
  frv,                    \* value the feeder goroutine returned
  next,                   \* index in toRun of the next item to run / to send
  closed,                 \* close(from) was executed
  cancelled,              \* egctx is done (errgroup's errOnce has fired)
  egErr,                  \* errgroup's g.err
  result,                 \* the value drainAndExecute returned
  started,                \* item indexes in the order their calls r(ctx) began
  itemRes,                \* per item index: the value r(ctx) returned
  calls,                  \* how many times the caller calls Drift on the Drifter
  runNo,                  \* which call of Drift this is
  runResult,              \* the value Drift returned
  skipDir,                \* the argument of a call of shouldSkipDirectory
  skipPc,                 \* that call's position: "off", "call" or "done"
  skipRet,                \* the value that call returned
  Notifications,          \* Multi.Notifications: the underlying sinks, in list order
  mCall,                  \* the method called on the Multi and its arguments
  mPc,                    \* that call's position: "off", "loop" or "done"
  mLog,                   \* the calls the underlying sinks received, in order
  mRet,                   \* the value the Multi's method returned
  undelivered             \* keys whose PlanDrift delivery failed in the previous call of Drift

flt == <<skipDir, skipPc, skipRet>>
conf == <<ParallelRuns, DirectoryAllowlist, SkipWorkspaceCheck, ws, calls>>
mul == <<Notifications, mCall, mPc, mLog, mRet>>
cfg == <<conf, pass, runNo, runResult, flt, mul, undelivered>>
ctl == <<pc, rv, result, itemRes, cur, wi, stage, pr, remote, started>>
feed == <<fpc, frv, next, closed>>
grp == <<cancelled, egErr>>
xs == <<wcache, wcache0, dlog, listed>>
shared == <<now, cache, DriftedWorkspaceCount, notifs, klog, planned, cache0, xs>>
vars == <<cfg, ctl, feed, grp, shared>>

----------------------------------------------------------------------------
(* Bounds and inputs *)

MaxParallel == 2
CacheValidDuration == 2

Main == 0
Threads == 0..MaxParallel
Workers == 1..ParallelRuns

\* directory names "d", "de", "f" as byte sequences
DirD == <<100>>
DirDE == <<100, 101>>
DirF == <<102>>
AllDirs == {DirD, DirDE, DirF}
AllWorkspaces == {"a", "b"}
KeySpace == AllDirs \X AllWorkspaces

\* the declared work sets: none, one directory with two workspaces, three
\* directories with one workspace each
EmptyWs == [d \in {} |-> <<>>]
OneDir == [d \in {DirDE} |-> <<"a", "b">>]
ThreeDirs == [d \in AllDirs |-> <<"a">>]
WorkSets == {EmptyWs, OneDir, ThreeDirs}

\* allow-lists: empty, and <<"ff", "d">>, which admits "d" and "de", not "f"
Allowlists == { <<>>, << <<102, 102>>, <<100>> >> }

----------------------------------------------------------------------------
(* Values *)

Err(op, d, w) == [op |-> op, dir |-> d, w |-> w]
Nil == Err("nil", <<>>, "")
Canceled == Err("context canceled", <<>>, "")
Pending == Err("pending", <<>>, "")

Absent == [present |-> FALSE, When |-> 0, Drift |-> FALSE]
DriftCheckValue(when, drift) == [present |-> TRUE, When |-> when, Drift |-> drift]

NoWorkspaces == [present |-> FALSE, When |-> 0, Workspaces |-> <<>>]
WorkspacesCheckedValue(when, l) == [present |-> TRUE, When |-> when, Workspaces |-> l]

\* the answer of Terraform.ListWorkspaces: none yet, an error, or a listing
NotListed == [kind |-> "none", list |-> <<>>]
ListError == [kind |-> "error", list |-> <<>>]
Listing(l) == [kind |-> "ok", list |-> l]
RemoteListings ==
  { <<>>,
    <<"a", "b", "c", "default">>,
    <<"c", "default", "c">>,
    <<"default", "a">> }

NoPlan == [kind |-> "none", locked |-> FALSE, hasChanges |-> FALSE]
PlanOutcomes ==
  [kind : {"ok"}, locked : BOOLEAN, hasChanges : BOOLEAN]
    \cup [kind : {"temporary", "fatal"}, locked : {FALSE}, hasChanges : {FALSE}]

----------------------------------------------------------------------------
(* Pure functions *)

\* strings.Contains(s, sub)
Contains(s, sub) ==
  \E i \in 0..(Len(s) - Len(sub)) : SubSeq(s, i + 1, i + Len(sub)) = sub

\* the pattern must be a prefix of the directory
shouldSkipUnlessPrefix(dir) ==
  IF Len(DirectoryAllowlist) = 0
    THEN FALSE
    ELSE ~ \E i \in 1..Len(DirectoryAllowlist) :
             /\ Len(DirectoryAllowlist[i]) <= Len(dir)
             /\ SubSeq(dir, 1, Len(DirectoryAllowlist[i])) = DirectoryAllowlist[i]

shouldSkipDirectory(dir) ==
  IF Len(DirectoryAllowlist) = 0
    THEN FALSE
    ELSE ~ \E i \in 1..Len(DirectoryAllowlist) : Contains(dir, DirectoryAllowlist[i])

\* byte-wise string order of Go
LexLess(a, b) ==
  \E i \in 1..(Len(a) + 1) :
    /\ \A j \in 1..(i - 1) : j <= Len(b) /\ a[j] = b[j]
    /\ \/ i = Len(a) + 1 /\ i <= Len(b)
       \/ i <= Len(a) /\ i <= Len(b) /\ a[i] < b[i]

RECURSIVE SortSet(_)
SortSet(S) ==
  IF S = {} THEN <<>>
  ELSE LET m == CHOOSE x \in S : \A y \in S \ {x} : LexLess(x, y)
       IN <<m>> \o SortSet(S \ {m})

SortedKeys(m) == SortSet(DOMAIN m)

\* the work list is built from the keys in reverse
runsReversed ==
  [i \in 1..Len(SortedKeys(ws)) |-> SortedKeys(ws)[Len(SortedKeys(ws)) + 1 - i]]

\* the list toRun that a pass hands to drainAndExecute, as directories
runs == SortedKeys(ws)

Dir(t) == runs[cur[t]]
Workspace(t) == ws[Dir(t)][wi[t]]
Key(t) == <<Dir(t), Workspace(t)>>

\* the filter is not consulted
StartsBodyUnfiltered(d) == pass = "drift" => Len(ws[d]) > 0

\* an item whose body makes at least one call: the directory is not skipped
\* and, in the drift pass, has a workspace to loop over
StartsBody(d) == ~shouldSkipDirectory(d) /\ (pass = "drift" => Len(ws[d]) > 0)

\* off by one: a record of age CacheValidDuration - 1 taken for stale
FreshOffByOne(rec) == now - rec.When < CacheValidDuration - 1

\* a record whose age equals CacheValidDuration still counts as fresh
FreshInclusive(rec) == now - rec.When <= CacheValidDuration

Fresh(rec) == now - rec.When < CacheValidDuration

Logged(k, op) == klog' = [klog EXCEPT ![k] = Append(@, op)]

----------------------------------------------------------------------------
(* Control flow of an item inside drainAndExecute *)

\* the sequential loop does not return on an error
FinishWithoutReturn(t, i, e) ==
  /\ itemRes' = [itemRes EXCEPT ![i] = e]
  /\ cur' = [cur EXCEPT ![t] = 0]
  /\ wi' = [wi EXCEPT ![t] = 0]
  /\ stage' = [stage EXCEPT ![t] = "none"]
  /\ pr' = [pr EXCEPT ![t] = NoPlan]
  /\ remote' = [remote EXCEPT ![t] = <<>>]
  /\ IF t = Main
       THEN /\ pc' = [pc EXCEPT ![t] = "next"]
            /\ result' = (IF e = Nil THEN result ELSE e)
            /\ UNCHANGED rv
       ELSE IF e = Nil
              THEN pc' = [pc EXCEPT ![t] = "select"] /\ UNCHANGED <<rv, result>>
              ELSE /\ pc' = [pc EXCEPT ![t] = "return"]
                   /\ rv' = [rv EXCEPT ![t] = e]
                   /\ UNCHANGED result

\* a worker logs the error of an item and goes on to receive the next one
FinishDropsWorkerError(t, i, e) ==
  /\ itemRes' = [itemRes EXCEPT ![i] = e]
  /\ cur' = [cur EXCEPT ![t] = 0]
  /\ wi' = [wi EXCEPT ![t] = 0]
  /\ stage' = [stage EXCEPT ![t] = "none"]
  /\ pr' = [pr EXCEPT ![t] = NoPlan]
  /\ remote' = [remote EXCEPT ![t] = <<>>]
  /\ IF t = Main
       THEN IF e = Nil
              THEN pc' = [pc EXCEPT ![t] = "next"] /\ UNCHANGED <<rv, result>>
              ELSE pc' = [pc EXCEPT ![t] = "exit"] /\ result' = e /\ UNCHANGED rv
       ELSE pc' = [pc EXCEPT ![t] = "select"] /\ UNCHANGED <<rv, result>>

\* r(ctx) of item i returns e on thread t: lines 111-114 (sequential) and
\* 140-142 (worker)
Finish(t, i, e) ==
  /\ itemRes' = [itemRes EXCEPT ![i] = e]
  /\ cur' = [cur EXCEPT ![t] = 0]
  /\ wi' = [wi EXCEPT ![t] = 0]
  /\ stage' = [stage EXCEPT ![t] = "none"]
  /\ pr' = [pr EXCEPT ![t] = NoPlan]
  /\ remote' = [remote EXCEPT ![t] = <<>>]
  /\ IF t = Main
       THEN IF e = Nil
              THEN pc' = [pc EXCEPT ![t] = "next"] /\ UNCHANGED <<rv, result>>
              ELSE pc' = [pc EXCEPT ![t] = "exit"] /\ result' = e /\ UNCHANGED rv
       ELSE IF e = Nil
              THEN pc' = [pc EXCEPT ![t] = "select"] /\ UNCHANGED <<rv, result>>
              ELSE /\ pc' = [pc EXCEPT ![t] = "return"]
                   /\ rv' = [rv EXCEPT ![t] = e]
                   /\ UNCHANGED result

Enter(t, i) ==
  /\ pc' = [pc EXCEPT ![t] = "item"]
  /\ cur' = [cur EXCEPT ![t] = i]
  /\ wi' = [wi EXCEPT ![t] = IF pass = "drift" THEN 1 ELSE 0]
  /\ stage' = [stage EXCEPT ![t] = IF pass = "drift" THEN "get" ELSE "wget"]
  /\ UNCHANGED <<rv, result, itemRes, pr, remote>>

\* the call r(ctx) of item i on thread t, up to its first collaborator call
Call(t, i) ==
  /\ started' = Append(started, i)
  /\ IF StartsBody(runs[i]) THEN Enter(t, i) ELSE Finish(t, i, Nil)

Return(t, e) == Finish(t, cur[t], e) /\ UNCHANGED started

Advance(t, st, p) ==
  /\ stage' = [stage EXCEPT ![t] = st]
  /\ pr' = [pr EXCEPT ![t] = p]
  /\ UNCHANGED <<pc, rv, result, itemRes, cur, wi, remote, started>>

\* `continue` / end of the loop over the directory's workspaces
NextWorkspace(t) ==
  IF wi[t] < Len(ws[Dir(t)])
    THEN /\ wi' = [wi EXCEPT ![t] = @ + 1]
         /\ stage' = [stage EXCEPT ![t] = "get"]
         /\ pr' = [pr EXCEPT ![t] = NoPlan]
         /\ UNCHANGED <<pc, rv, result, itemRes, cur, remote, started>>
    ELSE Return(t, Nil)

----------------------------------------------------------------------------
(* The drift check of one workspace: FindDriftedWorkspaces, lines 159-212 *)

InDrift(t, st) == pass = "drift" /\ pc[t] = "item" /\ stage[t] = st

GetDriftCheckResult(t) ==
  /\ InDrift(t, "get")
  /\ Logged(Key(t), "get")
  /\ UNCHANGED <<cfg, feed, grp, xs, now, cache, DriftedWorkspaceCount, notifs, planned, cache0>>
  /\ \E fail \in BOOLEAN :
       IF fail THEN Return(t, Err("get", Dir(t), Workspace(t)))
       ELSE IF ~cache[Key(t)].present THEN Advance(t, "plan", NoPlan)
       ELSE IF Fresh(cache[Key(t)]) THEN NextWorkspace(t)
       ELSE Advance(t, "delete", NoPlan)

\* the error of the delete is dropped
DeleteIgnoringFailure(t) ==
  /\ InDrift(t, "delete")
  /\ Logged(Key(t), "delete")
  /\ UNCHANGED <<cfg, feed, grp, xs, now, DriftedWorkspaceCount, notifs, planned, cache0>>
  /\ \E fail \in BOOLEAN :
       /\ cache' = [cache EXCEPT ![Key(t)] = IF fail THEN @ ELSE Absent]
       /\ Advance(t, "plan", NoPlan)

DeleteDriftCheckResult(t) ==
  /\ InDrift(t, "delete")
  /\ Logged(Key(t), "delete")
  /\ UNCHANGED <<cfg, feed, grp, xs, now, DriftedWorkspaceCount, notifs, planned, cache0>>
  /\ \E fail \in BOOLEAN :
       IF fail
         THEN Return(t, Err("delete", Dir(t), Workspace(t))) /\ UNCHANGED cache
         ELSE /\ cache' = [cache EXCEPT ![Key(t)] = Absent]
              /\ Advance(t, "plan", NoPlan)

\* a temporary error is returned like any other
PlanSummaryTemporaryFatal(t) ==
  /\ InDrift(t, "plan")
  /\ Logged(Key(t), "plan")
  /\ UNCHANGED <<cfg, feed, grp, xs, now, cache, DriftedWorkspaceCount, notifs, cache0>>
  /\ \E out \in PlanOutcomes :
       /\ planned' = [planned EXCEPT ![Key(t)] = out]
       /\ IF out.kind = "ok" THEN Advance(t, "store", out)
          ELSE Return(t, Err("plan", Dir(t), Workspace(t)))

PlanSummary(t) ==
  /\ InDrift(t, "plan")
  /\ Logged(Key(t), "plan")
  /\ UNCHANGED <<cfg, feed, grp, xs, now, cache, DriftedWorkspaceCount, notifs, cache0>>
  /\ \E out \in PlanOutcomes :
       /\ planned' = [planned EXCEPT ![Key(t)] = out]
       /\ IF out.kind = "temporary" THEN NextWorkspace(t)
          ELSE IF out.kind = "fatal" THEN Return(t, Err("plan", Dir(t), Workspace(t)))
          ELSE Advance(t, "store", out)

\* the lock check is missing
StoreIgnoringLock(t) ==
  /\ InDrift(t, "store")
  /\ Logged(Key(t), "store")
  /\ UNCHANGED <<cfg, feed, grp, xs, now, DriftedWorkspaceCount, notifs, planned, cache0>>
  /\ \E fail \in BOOLEAN :
       IF fail
         THEN Return(t, Err("store", Dir(t), Workspace(t))) /\ UNCHANGED cache
         ELSE /\ cache' = [cache EXCEPT ![Key(t)] = DriftCheckValue(now, pr[t].hasChanges)]
              /\ IF pr[t].hasChanges THEN Advance(t, "add", pr[t])
                 ELSE NextWorkspace(t)

StoreDriftCheckResult(t) ==
  /\ InDrift(t, "store")
  /\ Logged(Key(t), "store")
  /\ UNCHANGED <<cfg, feed, grp, xs, now, DriftedWorkspaceCount, notifs, planned, cache0>>
  /\ \E fail \in BOOLEAN :
       IF fail
         THEN Return(t, Err("store", Dir(t), Workspace(t))) /\ UNCHANGED cache
         ELSE /\ cache' = [cache EXCEPT ![Key(t)] = DriftCheckValue(now, pr[t].hasChanges)]
              /\ IF pr[t].locked THEN NextWorkspace(t)
                 ELSE IF pr[t].hasChanges THEN Advance(t, "add", pr[t])
                 ELSE NextWorkspace(t)

\* a read-modify-write that is not atomic: of two threads that both stand at
\* the increment, the first one's write is lost
AddNotAtomic(t) ==
  /\ InDrift(t, "add")
  /\ Logged(Key(t), "add")
  /\ DriftedWorkspaceCount' =
       IF \E u \in Threads \ {t} : pc[u] = "item" /\ stage[u] = "add"
         THEN DriftedWorkspaceCount
         ELSE DriftedWorkspaceCount + 1
  /\ Advance(t, "notify", pr[t])
  /\ UNCHANGED <<cfg, feed, grp, xs, now, cache, notifs, planned, cache0>>

\* the increment counts twice
AddTwice(t) ==
  /\ InDrift(t, "add")
  /\ Logged(Key(t), "add")
  /\ DriftedWorkspaceCount' = DriftedWorkspaceCount + 2
  /\ Advance(t, "notify", pr[t])
  /\ UNCHANGED <<cfg, feed, grp, xs, now, cache, notifs, planned, cache0>>

AddDriftedWorkspaceCount(t) ==
  /\ InDrift(t, "add")
  /\ Logged(Key(t), "add")
  /\ DriftedWorkspaceCount' = DriftedWorkspaceCount + 1
  /\ Advance(t, "notify", pr[t])
  /\ UNCHANGED <<cfg, feed, grp, xs, now, cache, notifs, planned, cache0>>

\* a failed delivery takes back the record and the increment
PlanDriftFailureRollsBack(t) ==
  /\ InDrift(t, "notify")
  /\ Logged(Key(t), "notify")
  /\ UNCHANGED <<cfg, feed, grp, xs, now, planned, cache0>>
  /\ \E fail \in BOOLEAN :
       /\ notifs' = Append(notifs, [kind |-> "PlanDrift", dir |-> Dir(t),
                                    w |-> Workspace(t), ok |-> ~fail])
       /\ IF fail
            THEN /\ cache' = [cache EXCEPT ![Key(t)] = Absent]
                 /\ DriftedWorkspaceCount' = DriftedWorkspaceCount - 1
                 /\ Return(t, Err("notify", Dir(t), Workspace(t)))
            ELSE /\ UNCHANGED <<cache, DriftedWorkspaceCount>>
                 /\ NextWorkspace(t)

PlanDrift(t) ==
  /\ InDrift(t, "notify")
  /\ Logged(Key(t), "notify")
  /\ UNCHANGED <<cfg, feed, grp, xs, now, cache, DriftedWorkspaceCount, planned, cache0>>
  /\ \E fail \in BOOLEAN :
       /\ notifs' = Append(notifs, [kind |-> "PlanDrift", dir |-> Dir(t),
                                    w |-> Workspace(t), ok |-> ~fail])
       /\ IF fail THEN Return(t, Err("notify", Dir(t), Workspace(t)))
          ELSE NextWorkspace(t)

----------------------------------------------------------------------------
(* The reconciliation of one directory: FindExtraWorkspaces, lines 228-276 *)

InExtra(t, st) == pass = "extra" /\ pc[t] = "item" /\ stage[t] = st

DLogged(d, op) == dlog' = [dlog EXCEPT ![d] = Append(@, op)]

\* the comparison forgets the declared workspaces after the first
containsFirstOnly(workspaces, w) == Len(workspaces) > 0 /\ workspaces[1] = w

contains(workspaces, w) == \E i \in 1..Len(workspaces) : workspaces[i] = w

\* "default" is not appended
expectedWithoutDefault(d) == ws[d]

\* expectedWorkspaces of lines 255-257
expectedWorkspaces(d) == ws[d] \o <<"default">>

\* the loop of lines 262-268 from position `from` of the listing on: the
\* next entry to notify, or past the end of the listing
NextExtraIndex(d, l, from) ==
  IF \E i \in from..Len(l) : ~contains(expectedWorkspaces(d), l[i])
    THEN CHOOSE i \in from..Len(l) :
           /\ ~contains(expectedWorkspaces(d), l[i])
           /\ \A j \in from..(i - 1) : contains(expectedWorkspaces(d), l[j])
    ELSE Len(l) + 1

AdvanceExtra(t, st, i, l) ==
  /\ stage' = [stage EXCEPT ![t] = st]
  /\ wi' = [wi EXCEPT ![t] = i]
  /\ remote' = [remote EXCEPT ![t] = l]
  /\ UNCHANGED <<pc, rv, result, itemRes, cur, pr, started>>

\* go on to the notification of entry i of the listing l, or to the store
ContinueLoop(t, l, i) ==
  IF i <= Len(l) THEN AdvanceExtra(t, "extra", i, l) ELSE AdvanceExtra(t, "wstore", 0, l)

GetRemoteWorkspaces(t) ==
  /\ InExtra(t, "wget")
  /\ DLogged(Dir(t), "get")
  /\ UNCHANGED <<cfg, feed, grp, now, cache, DriftedWorkspaceCount, notifs, klog, planned,
                 cache0, wcache, wcache0, listed>>
  /\ \E fail \in BOOLEAN :
       IF fail THEN Return(t, Err("get", Dir(t), ""))
       ELSE IF ~wcache[Dir(t)].present THEN AdvanceExtra(t, "init", 0, <<>>)
       ELSE IF Fresh(wcache[Dir(t)]) THEN Return(t, Nil)
       ELSE AdvanceExtra(t, "wdelete", 0, <<>>)

DeleteRemoteWorkspaces(t) ==
  /\ InExtra(t, "wdelete")
  /\ DLogged(Dir(t), "delete")
  /\ UNCHANGED <<cfg, feed, grp, now, cache, DriftedWorkspaceCount, notifs, klog, planned,
                 cache0, wcache0, listed>>
  /\ \E fail \in BOOLEAN :
       IF fail
         THEN Return(t, Err("delete", Dir(t), "")) /\ UNCHANGED wcache
         ELSE /\ wcache' = [wcache EXCEPT ![Dir(t)] = NoWorkspaces]
              /\ AdvanceExtra(t, "init", 0, <<>>)

TerraformInit(t) ==
  /\ InExtra(t, "init")
  /\ DLogged(Dir(t), "init")
  /\ UNCHANGED <<cfg, feed, grp, now, cache, DriftedWorkspaceCount, notifs, klog, planned,
                 cache0, wcache, wcache0, listed>>
  /\ \E fail \in BOOLEAN :
       IF fail THEN Return(t, Err("init", Dir(t), ""))
       ELSE AdvanceExtra(t, "list", 0, <<>>)

\* a listing without extra workspaces ends the item without a store
ListWorkspacesCleanNotStored(t) ==
  /\ InExtra(t, "list")
  /\ DLogged(Dir(t), "list")
  /\ UNCHANGED <<cfg, feed, grp, now, cache, DriftedWorkspaceCount, notifs, klog, planned,
                 cache0, wcache, wcache0>>
  /\ \/ /\ listed' = [listed EXCEPT ![Dir(t)] = ListError]
        /\ Return(t, Err("list", Dir(t), ""))
     \/ \E l \in RemoteListings :
          /\ listed' = [listed EXCEPT ![Dir(t)] = Listing(l)]
          /\ IF NextExtraIndex(Dir(t), l, 1) > Len(l)
               THEN Return(t, Nil)
               ELSE ContinueLoop(t, l, NextExtraIndex(Dir(t), l, 1))

ListWorkspaces(t) ==
  /\ InExtra(t, "list")
  /\ DLogged(Dir(t), "list")
  /\ UNCHANGED <<cfg, feed, grp, now, cache, DriftedWorkspaceCount, notifs, klog, planned,
                 cache0, wcache, wcache0>>
  /\ \/ /\ listed' = [listed EXCEPT ![Dir(t)] = ListError]
        /\ Return(t, Err("list", Dir(t), ""))
     \/ \E l \in RemoteListings :
          /\ listed' = [listed EXCEPT ![Dir(t)] = Listing(l)]
          /\ ContinueLoop(t, l, NextExtraIndex(Dir(t), l, 1))

ExtraWorkspaceInRemote(t) ==
  /\ InExtra(t, "extra")
  /\ DLogged(Dir(t), "notify")
  /\ UNCHANGED <<cfg, feed, grp, now, cache, DriftedWorkspaceCount, klog, planned,
                 cache0, wcache, wcache0, listed>>
  /\ \E fail \in BOOLEAN :
       /\ notifs' = Append(notifs, [kind |-> "ExtraWorkspaceInRemote", dir |-> Dir(t),
                                    w |-> remote[t][wi[t]], ok |-> ~fail])
       /\ IF fail THEN Return(t, Err("notify", Dir(t), remote[t][wi[t]]))
          ELSE ContinueLoop(t, remote[t], NextExtraIndex(Dir(t), remote[t], wi[t] + 1))

StoreRemoteWorkspaces(t) ==
  /\ InExtra(t, "wstore")
  /\ DLogged(Dir(t), "store")
  /\ UNCHANGED <<cfg, feed, grp, now, cache, DriftedWorkspaceCount, notifs, klog, planned,
                 cache0, wcache0, listed>>
  /\ \E fail \in BOOLEAN :
       IF fail
         THEN Return(t, Err("store", Dir(t), "")) /\ UNCHANGED wcache
         ELSE /\ wcache' = [wcache EXCEPT ![Dir(t)] = WorkspacesCheckedValue(now, remote[t])]
              /\ Return(t, Nil)

----------------------------------------------------------------------------
(* drainAndExecute, sequential branch: lines 109-116 *)

SeqNext ==
  /\ pc[Main] = "next"
  /\ UNCHANGED <<cfg, fpc, frv, closed, grp, shared>>
  /\ IF next > Len(runs)
       THEN /\ result' = Nil
            /\ pc' = [pc EXCEPT ![Main] = "exit"]
            /\ UNCHANGED <<rv, itemRes, cur, wi, stage, pr, remote, started, next>>
       ELSE /\ next' = next + 1
            /\ Call(Main, next)

----------------------------------------------------------------------------
(* drainAndExecute, concurrent branch: lines 117-147 *)

Feeder == 0 - 1

\* workers blocked in the select of lines 133-143
ParkedWorkers == {w \in Workers : pc[w] = "parked"}

\* the feeder sends with a plain `from <- r`, without a case on egctx.Done()
BlockedOnDoneWorkersOnly == ParkedWorkers

\* goroutines blocked in a select that has a `case <-egctx.Done()`: the
\* workers (line 134) and the feeder (line 123)
BlockedOnDone == ParkedWorkers \cup (IF fpc = "parked" THEN {Feeder} ELSE {})

\* the feeder: for _, r := range toRun { select {...} }, lines 120-126
FeederSend ==
  /\ fpc = "select" /\ next <= Len(runs)
  /\ \E w \in ParkedWorkers :
       /\ Call(w, next)
       /\ next' = next + 1
       /\ UNCHANGED <<cfg, fpc, frv, closed, grp, shared>>

FeederDone ==
  /\ fpc = "select" /\ next <= Len(runs)
  /\ cancelled
  /\ fpc' = "return" /\ frv' = Canceled
  /\ UNCHANGED <<cfg, ctl, next, closed, grp, shared>>

FeederPark ==
  /\ fpc = "select" /\ next <= Len(runs)
  /\ ~cancelled /\ ParkedWorkers = {}
  /\ fpc' = "parked"
  /\ UNCHANGED <<cfg, ctl, frv, next, closed, grp, shared>>

\* a close(from) that leaves the receivers blocked on from where they are
FeederCloseWakesNobody ==
  /\ fpc = "select" /\ next > Len(runs)
  /\ closed' = TRUE
  /\ fpc' = "return" /\ frv' = Nil
  /\ UNCHANGED <<cfg, ctl, next, grp, shared>>

\* close(from); return nil: lines 127-128. Receivers blocked on from resume
\* with ok = false and return nil (lines 137-139).
FeederClose ==
  /\ fpc = "select" /\ next > Len(runs)
  /\ closed' = TRUE
  /\ fpc' = "return" /\ frv' = Nil
  /\ pc' = [t \in Threads |-> IF t \in ParkedWorkers THEN "return" ELSE pc[t]]
  /\ rv' = [t \in Threads |-> IF t \in ParkedWorkers THEN Nil ELSE rv[t]]
  /\ UNCHANGED <<cfg, result, itemRes, cur, wi, stage, pr, remote, started, next, grp, shared>>

\* the worker's select, lines 133-143
WorkerDone(w) ==
  /\ pc[w] = "select"
  /\ cancelled
  /\ pc' = [pc EXCEPT ![w] = "return"]
  /\ rv' = [rv EXCEPT ![w] = Canceled]
  /\ UNCHANGED <<cfg, result, itemRes, cur, wi, stage, pr, remote, started, feed, grp, shared>>

WorkerRecv(w) ==
  /\ pc[w] = "select"
  /\ fpc = "parked"
  /\ Call(w, next)
  /\ next' = next + 1
  /\ fpc' = "select"
  /\ UNCHANGED <<cfg, frv, closed, grp, shared>>

WorkerRecvClosed(w) ==
  /\ pc[w] = "select"
  /\ closed
  /\ pc' = [pc EXCEPT ![w] = "return"]
  /\ rv' = [rv EXCEPT ![w] = Nil]
  /\ UNCHANGED <<cfg, result, itemRes, cur, wi, stage, pr, remote, started, feed, grp, shared>>

WorkerPark(w) ==
  /\ pc[w] = "select"
  /\ ~cancelled /\ ~closed /\ fpc # "parked"
  /\ pc' = [pc EXCEPT ![w] = "parked"]
  /\ UNCHANGED <<cfg, rv, result, itemRes, cur, wi, stage, pr, remote, started, feed, grp, shared>>

\* without errOnce: every non-nil return value overwrites g.err
AnyError(e) == e # Nil

\* errgroup: a goroutine function returned e. The first non-nil e is kept in
\* g.err and cancels egctx; closing egctx.Done() resumes every goroutine
\* blocked in a select on it, which then returns egctx.Err().
FirstError(e) == e # Nil /\ ~cancelled

WorkerExit(w) ==
  /\ pc[w] = "return"
  /\ IF FirstError(rv[w])
       THEN /\ egErr' = rv[w]
            /\ cancelled' = TRUE
            /\ pc' = [t \in Threads |->
                        IF t = w THEN "exit"
                        ELSE IF t \in BlockedOnDone THEN "return" ELSE pc[t]]
            /\ rv' = [t \in Threads |-> IF t \in BlockedOnDone THEN Canceled ELSE rv[t]]
            /\ IF Feeder \in BlockedOnDone
                 THEN fpc' = "return" /\ frv' = Canceled
                 ELSE UNCHANGED <<fpc, frv>>
       ELSE /\ pc' = [pc EXCEPT ![w] = "exit"]
            /\ UNCHANGED <<rv, fpc, frv, grp>>
  /\ UNCHANGED <<cfg, result, itemRes, cur, wi, stage, pr, remote, started, next, closed, shared>>

FeederExit ==
  /\ fpc = "return"
  /\ fpc' = "exit"
  /\ IF FirstError(frv)
       THEN /\ egErr' = frv
            /\ cancelled' = TRUE
            /\ pc' = [t \in Threads |-> IF t \in BlockedOnDone THEN "return" ELSE pc[t]]
            /\ rv' = [t \in Threads |-> IF t \in BlockedOnDone THEN Canceled ELSE rv[t]]
       ELSE UNCHANGED <<pc, rv, grp>>
  /\ UNCHANGED <<cfg, result, itemRes, cur, wi, stage, pr, remote, started, frv, next, closed, shared>>

\* return eg.Wait(): line 147
Wait ==
  /\ pc[Main] = "wait"
  /\ fpc = "exit" /\ \A w \in Workers : pc[w] = "exit"
  /\ result' = egErr
  /\ pc' = [pc EXCEPT ![Main] = "exit"]
  /\ UNCHANGED <<cfg, rv, itemRes, cur, wi, stage, pr, remote, started, feed, grp, shared>>

----------------------------------------------------------------------------
(* A call of the directory filter on its own *)

MaxDirLen == 3
MaxPatLen == 2
MaxPatterns == 2

SeqsUpTo(S, n) == UNION {[1..m -> S] : m \in 0..n}

\* directory names and allow-list patterns over the bytes "d" and "e"
FilterDirs == SeqsUpTo({100, 101}, MaxDirLen)
FilterPatterns == SeqsUpTo({100, 101}, MaxPatLen)
FilterAllowlists == SeqsUpTo(FilterPatterns, MaxPatterns)

NoFilterCall == skipDir = <<>> /\ skipPc = "off" /\ skipRet = FALSE

\* d.shouldSkipDirectory(skipDir) is called and returns
CallShouldSkipDirectory ==
  /\ skipPc = "call"
  /\ skipRet' = shouldSkipDirectory(skipDir)
  /\ skipPc' = "done"
  /\ UNCHANGED <<conf, pass, runNo, runResult, skipDir, mul, undelivered, ctl, feed, grp, shared>>

----------------------------------------------------------------------------
(* The composite sink Multi (package notification) *)

MaxSinks == 3

\* the sinks a Multi may be built from; the same sink may be listed twice
SinkNames == {"zap", "slack"}

\* the five methods of the Notification interface
Methods ==
  {"TemporaryError", "ExtraWorkspaceInRemote", "MissingWorkspaceInRemote",
   "PlanDrift", "WorkspaceDriftSummary"}

\* arguments of a call: (dir, workspace) and, for the summary, the three counts
MethodArgs(kind) ==
  IF kind = "WorkspaceDriftSummary" THEN {<<1, 1, 2>>, <<0, 2, 2>>}
  ELSE {<<DirD, "a">>, <<DirF, "b">>}

MultiCalls == UNION {{[kind |-> k, args |-> a] : a \in MethodArgs(k)} : k \in Methods}

NoCall == [kind |-> "none", args |-> <<>>]

\* the error the sink at position i of the list returns when it fails
SinkError(i) == [op |-> "sink", dir |-> <<i>>, w |-> Notifications[i]]

NoMultiCall ==
  Notifications = <<>> /\ mCall = NoCall /\ mPc = "off" /\ mLog = <<>> /\ mRet = Nil

\* a loop that goes on after a failing sink and returns the last error
MultiLoopKeepsGoing(kind) ==
  /\ mPc = "loop" /\ mCall.kind = kind
  /\ LET i == Len(mLog) + 1
     IN IF i <= Len(Notifications)
        THEN \E e \in {Nil, SinkError(i)} :
               /\ mLog' = Append(mLog, [sink |-> Notifications[i], pos |-> i,
                                        kind |-> kind, args |-> mCall.args, ret |-> e])
               /\ mRet' = IF e # Nil THEN e ELSE mRet
               /\ mPc' = "loop"
        ELSE /\ mRet' = IF mRet = Pending THEN Nil ELSE mRet
             /\ mPc' = "done"
             /\ UNCHANGED mLog
  /\ UNCHANGED <<conf, pass, runNo, runResult, flt, Notifications, mCall, undelivered,
                 ctl, feed, grp, shared>>

\* one turn of "for _, n := range m.Notifications" in the method kind: the
\* next sink is called with the method's arguments and its error, if any, is
\* returned at once; after the last sink the method returns nil
MultiLoop(kind) ==
  /\ mPc = "loop" /\ mCall.kind = kind
  /\ LET i == Len(mLog) + 1
     IN IF i <= Len(Notifications)
        THEN \E e \in {Nil, SinkError(i)} :
               /\ mLog' = Append(mLog, [sink |-> Notifications[i], pos |-> i,
                                        kind |-> kind, args |-> mCall.args, ret |-> e])
               /\ IF e # Nil
                  THEN mRet' = e /\ mPc' = "done"
                  ELSE UNCHANGED <<mRet, mPc>>
        ELSE /\ mRet' = Nil
             /\ mPc' = "done"
             /\ UNCHANGED mLog
  /\ UNCHANGED <<conf, pass, runNo, runResult, flt, Notifications, mCall, undelivered,
                 ctl, feed, grp, shared>>

MultiTemporaryError == MultiLoop("TemporaryError")
MultiExtraWorkspaceInRemote == MultiLoop("ExtraWorkspaceInRemote")
MultiMissingWorkspaceInRemote == MultiLoop("MissingWorkspaceInRemote")
MultiPlanDrift == MultiLoop("PlanDrift")
MultiWorkspaceDriftSummary == MultiLoop("WorkspaceDriftSummary")

----------------------------------------------------------------------------
(* The drift pass: FindDriftedWorkspaces called on a Drifter *)

\* Records the cache may hold when a pass begins: none, one of age
\* CacheValidDuration - 1, one of age CacheValidDuration.
Statuses ==
  << Absent,
     DriftCheckValue(now - CacheValidDuration + 1, TRUE),
     DriftCheckValue(now - CacheValidDuration, FALSE) >>

Declared(k) ==
  k[1] \in DOMAIN ws /\ \E i \in 1..Len(ws[k[1]]) : ws[k[1]][i] = k[2]

\* the cache in which the i-th directory's j-th workspace has status i + j
Mixed ==
  [k \in KeySpace |->
     IF ~Declared(k) THEN Absent
     ELSE LET i == CHOOSE n \in 1..Len(runs) : runs[n] = k[1]
              j == CHOOSE n \in 1..Len(ws[k[1]]) : ws[k[1]][n] = k[2]
          IN Statuses[((i + j) % 3) + 1]]

\* every content for a single directory, the mixed cache for several
InitCache ==
  { c \in [KeySpace -> {Statuses[n] : n \in 1..3}] :
      /\ \A k \in KeySpace : ~Declared(k) => c[k] = Absent
      /\ Cardinality(DOMAIN ws) > 1 =>
            c = Mixed }

InitDrain ==
  /\ pc = [t \in Threads |->
             IF t = Main THEN (IF ParallelRuns <= 1 THEN "next" ELSE "wait")
             ELSE IF t \in Workers THEN "select" ELSE "off"]
  /\ fpc = IF ParallelRuns <= 1 THEN "off" ELSE "select"
  /\ frv = Nil
  /\ rv = [t \in Threads |-> Nil]
  /\ cur = [t \in Threads |-> 0]
  /\ wi = [t \in Threads |-> 0]
  /\ stage = [t \in Threads |-> "none"]
  /\ pr = [t \in Threads |-> NoPlan]
  /\ remote = [t \in Threads |-> <<>>]
  /\ next = 1
  /\ closed = FALSE
  /\ cancelled = FALSE
  /\ egErr = Nil
  /\ result = Pending
  /\ started = <<>>
  /\ itemRes = [i \in 1..Len(runs) |-> Pending]

Init ==
  /\ ParallelRuns \in 0..MaxParallel
  /\ DirectoryAllowlist \in Allowlists
  /\ SkipWorkspaceCheck = FALSE
  /\ ws \in WorkSets
  /\ pass = "drift"
  /\ now = CacheValidDuration
  /\ cache \in InitCache
  /\ cache0 = cache
  /\ planned = [k \in KeySpace |-> NoPlan]
  /\ DriftedWorkspaceCount = 0
  /\ notifs = <<>>
  /\ klog = [k \in KeySpace |-> <<>>]
  /\ wcache = [d \in AllDirs |-> NoWorkspaces]
  /\ wcache0 = wcache
  /\ dlog = [d \in AllDirs |-> <<>>]
  /\ listed = [d \in AllDirs |-> NotListed]
  /\ calls = 1 /\ runNo = 1 /\ runResult = Pending
  /\ NoFilterCall
  /\ NoMultiCall
  /\ undelivered = {}
  /\ InitDrain

Next ==
  \/ SeqNext
  \/ FeederSend
  \/ FeederDone
  \/ FeederPark
  \/ FeederClose
  \/ FeederExit
  \/ Wait
  \/ \E w \in Workers :
       \/ WorkerDone(w)
       \/ WorkerRecv(w)
       \/ WorkerRecvClosed(w)
       \/ WorkerPark(w)
       \/ WorkerExit(w)
  \/ \E t \in Threads :
       \/ GetDriftCheckResult(t)
       \/ DeleteDriftCheckResult(t)
       \/ PlanSummary(t)
       \/ StoreDriftCheckResult(t)
       \/ AddDriftedWorkspaceCount(t)
       \/ PlanDrift(t)

Spec == Init /\ [][Next]_vars


----------------------------------------------------------------------------
(* The reconciliation pass: FindExtraWorkspaces called on a Drifter *)

WStatuses ==
  << NoWorkspaces,
     WorkspacesCheckedValue(now - CacheValidDuration + 1, <<"default">>),
     WorkspacesCheckedValue(now - CacheValidDuration, <<"default", "c">>) >>

\* the cache in which the i-th directory has status i
MixedW ==
  [d \in AllDirs |->
     IF d \notin DOMAIN ws THEN NoWorkspaces
     ELSE LET i == CHOOSE n \in 1..Len(runs) : runs[n] = d
          IN WStatuses[(i % 3) + 1]]

InitWCache ==
  { c \in [AllDirs -> {WStatuses[n] : n \in 1..3}] :
      /\ \A d \in AllDirs : d \notin DOMAIN ws => c[d] = NoWorkspaces
      /\ Cardinality(DOMAIN ws) > 1 => c = MixedW }

\* line 224-226: with SkipWorkspaceCheck the pass returns nil at once
SkipCheck ==
  /\ pass = "extra" /\ pc[Main] = "enter"
  /\ SkipWorkspaceCheck
  /\ result' = Nil
  /\ pc' = [pc EXCEPT ![Main] = "exit"]
  /\ UNCHANGED <<cfg, rv, itemRes, cur, wi, stage, pr, remote, started, feed, grp, shared>>

\* lines 278-282: the work list is built and handed to drainAndExecute
Drain ==
  /\ pass = "extra" /\ pc[Main] = "enter"
  /\ ~SkipWorkspaceCheck
  /\ pc' = [t \in Threads |->
              IF t = Main THEN (IF ParallelRuns <= 1 THEN "next" ELSE "wait")
              ELSE IF t \in Workers THEN "select" ELSE "off"]
  /\ fpc' = IF ParallelRuns <= 1 THEN "off" ELSE "select"
  /\ UNCHANGED <<cfg, rv, result, itemRes, cur, wi, stage, pr, remote, started,
                 frv, next, closed, grp, shared>>

InitExtra ==
  /\ ParallelRuns \in 0..MaxParallel
  /\ DirectoryAllowlist \in Allowlists
  /\ SkipWorkspaceCheck \in BOOLEAN
  /\ ws \in WorkSets
  /\ ParallelRuns > 2 => DirectoryAllowlist # <<>>
  /\ pass = "extra"
  /\ now = CacheValidDuration
  /\ cache = [k \in KeySpace |-> Absent]
  /\ cache0 = cache
  /\ planned = [k \in KeySpace |-> NoPlan]
  /\ DriftedWorkspaceCount = 0
  /\ notifs = <<>>
  /\ klog = [k \in KeySpace |-> <<>>]
  /\ wcache \in InitWCache
  /\ wcache0 = wcache
  /\ dlog = [d \in AllDirs |-> <<>>]
  /\ listed = [d \in AllDirs |-> NotListed]
  /\ calls = 1 /\ runNo = 1 /\ runResult = Pending
  /\ NoFilterCall
  /\ NoMultiCall
  /\ undelivered = {}
  /\ pc = [t \in Threads |-> IF t = Main THEN "enter" ELSE "off"]
  /\ fpc = "off"
  /\ frv = Nil
  /\ rv = [t \in Threads |-> Nil]
  /\ cur = [t \in Threads |-> 0]
  /\ wi = [t \in Threads |-> 0]
  /\ stage = [t \in Threads |-> "none"]
  /\ pr = [t \in Threads |-> NoPlan]
  /\ remote = [t \in Threads |-> <<>>]
  /\ next = 1
  /\ closed = FALSE
  /\ cancelled = FALSE
  /\ egErr = Nil
  /\ result = Pending
  /\ started = <<>>
  /\ itemRes = [i \in 1..Len(runs) |-> Pending]

NextExtra ==
  \/ SkipCheck
  \/ Drain
  \/ SeqNext
  \/ FeederSend
  \/ FeederDone
  \/ FeederPark
  \/ FeederClose
  \/ FeederExit
  \/ Wait
  \/ \E w \in Workers :
       \/ WorkerDone(w)
       \/ WorkerRecv(w)
       \/ WorkerRecvClosed(w)
       \/ WorkerPark(w)
       \/ WorkerExit(w)
  \/ \E t \in Threads :
       \/ GetRemoteWorkspaces(t)
       \/ DeleteRemoteWorkspaces(t)
       \/ TerraformInit(t)
       \/ ListWorkspaces(t)
       \/ ExtraWorkspaceInRemote(t)
       \/ StoreRemoteWorkspaces(t)

SpecExtra == InitExtra /\ [][NextExtra]_vars

----------------------------------------------------------------------------
(* A run: Drift called on a Drifter, lines 46-92 *)

MaxRuns == 2

\* two directories "d" and "f" with one workspace each; the runs are over
\* one, two or three directories, three of them only with ParallelRuns <= 1
TwoDirs == [d \in {DirD, DirF} |-> <<"a">>]
RunWorkSets == {OneDir, TwoDirs, ThreeDirs}

\* fmt.Errorf("failed to ...: %w", err)
Wrapped(msg, e) == [op |-> msg, cause |-> e]

\* the locals of drainAndExecute before a pass calls it
ResetDrain(at) ==
  /\ pc' = [t \in Threads |-> IF t = Main THEN at ELSE "off"]
  /\ fpc' = "off"
  /\ frv' = Nil
  /\ rv' = [t \in Threads |-> Nil]
  /\ cur' = [t \in Threads |-> 0]
  /\ wi' = [t \in Threads |-> 0]
  /\ stage' = [t \in Threads |-> "none"]
  /\ pr' = [t \in Threads |-> NoPlan]
  /\ remote' = [t \in Threads |-> <<>>]
  /\ next' = 1
  /\ closed' = FALSE
  /\ cancelled' = FALSE
  /\ egErr' = Nil
  /\ result' = Pending
  /\ started' = <<>>
  /\ itemRes' = [i \in 1..Len(runs) |-> Pending]

\* lines 48-79: checkout, config generation and parsing, any of which may fail
CheckOutTerraformRepo ==
  /\ pc[Main] = "checkout"
  /\ \E fail \in BOOLEAN :
       IF fail
         THEN /\ runResult' = Err("checkout", <<>>, "")
              /\ pc' = [pc EXCEPT ![Main] = "done"]
         ELSE /\ pc' = [pc EXCEPT ![Main] = "enter"]
              /\ UNCHANGED runResult
  /\ UNCHANGED <<conf, flt, mul, undelivered, pass, runNo, rv, result, itemRes, cur, wi, stage, pr, remote,
                 started, feed, grp, shared>>

\* lines 216-220: the work list is built and handed to drainAndExecute
DrainDrifted ==
  /\ pass = "drift" /\ pc[Main] = "enter"
  /\ pc' = [t \in Threads |->
              IF t = Main THEN (IF ParallelRuns <= 1 THEN "next" ELSE "wait")
              ELSE IF t \in Workers THEN "select" ELSE "off"]
  /\ fpc' = IF ParallelRuns <= 1 THEN "off" ELSE "select"
  /\ UNCHANGED <<cfg, rv, result, itemRes, cur, wi, stage, pr, remote, started,
                 frv, next, closed, grp, shared>>

\* lines 81-86: FindDriftedWorkspaces returned
FindDriftedWorkspacesReturned ==
  /\ runResult = Pending /\ pass = "drift" /\ pc[Main] = "exit"
  /\ IF result # Nil
       THEN /\ runResult' = Wrapped("failed to find drifted workspaces", result)
            /\ pc' = [pc EXCEPT ![Main] = "done"]
            /\ UNCHANGED <<pass, rv, result, itemRes, cur, wi, stage, pr, remote,
                           started, feed, grp>>
       ELSE /\ pass' = "extra"
            /\ ResetDrain("enter")
            /\ UNCHANGED runResult
  /\ UNCHANGED <<conf, flt, mul, undelivered, runNo, shared>>

\* lines 86-88: FindExtraWorkspaces returned
FindExtraWorkspacesReturned ==
  /\ runResult = Pending /\ pass = "extra" /\ pc[Main] = "exit"
  /\ IF result # Nil
       THEN /\ runResult' = Wrapped("failed to find extra workspaces", result)
            /\ pc' = [pc EXCEPT ![Main] = "done"]
       ELSE /\ pc' = [pc EXCEPT ![Main] = "summary"]
            /\ UNCHANGED runResult
  /\ UNCHANGED <<conf, flt, mul, undelivered, pass, runNo, rv, result, itemRes, cur, wi, stage, pr, remote,
                 started, feed, grp, shared>>

\* lines 89-91: the summary is sent with the counter as its only argument,
\* the value it returns is dropped, and Drift returns nil
WorkspaceDriftSummary ==
  /\ pc[Main] = "summary"
  /\ \E fail \in BOOLEAN :
       notifs' = Append(notifs, [kind |-> "WorkspaceDriftSummary", dir |-> <<>>, w |-> "",
                                 ok |-> ~fail, args |-> <<DriftedWorkspaceCount>>])
  /\ runResult' = Nil
  /\ pc' = [pc EXCEPT ![Main] = "done"]
  /\ UNCHANGED <<conf, flt, mul, undelivered, pass, runNo, rv, result, itemRes, cur, wi, stage, pr, remote,
                 started, feed, grp, now, cache, DriftedWorkspaceCount, klog, planned,
                 cache0, xs>>

\* the caller calls Drift again on the same Drifter, at once or
\* CacheValidDuration later; the histories start afresh
DriftAgain ==
  /\ pc[Main] = "done" /\ runNo < calls
  /\ runNo' = runNo + 1
  /\ runResult' = Pending
  /\ pass' = "drift"
  /\ ResetDrain("checkout")
  /\ now' \in {now, now + CacheValidDuration}
  /\ notifs' = <<>>
  /\ klog' = [k \in KeySpace |-> <<>>]
  /\ planned' = [k \in KeySpace |-> NoPlan]
  /\ cache0' = cache
  /\ wcache0' = wcache
  /\ dlog' = [d \in AllDirs |-> <<>>]
  /\ listed' = [d \in AllDirs |-> NotListed]
  /\ undelivered' =
       {k \in KeySpace : \E n \in 1..Len(notifs) :
          /\ notifs[n].kind = "PlanDrift" /\ ~notifs[n].ok
          /\ notifs[n].dir = k[1] /\ notifs[n].w = k[2]}
  /\ UNCHANGED <<conf, flt, mul, cache, wcache, DriftedWorkspaceCount>>

\* the mixed cache with every status moved on by one: the first workspace of
\* the first directory has a record of age CacheValidDuration - 1
MixedShifted ==
  [k \in KeySpace |->
     IF ~Declared(k) THEN Absent
     ELSE LET i == CHOOSE n \in 1..Len(runs) : runs[n] = k[1]
              j == CHOOSE n \in 1..Len(ws[k[1]]) : ws[k[1]][n] = k[2]
          IN Statuses[((i + j + 2) % 3) + 1]]

InitRun ==
  /\ ParallelRuns \in 0..MaxParallel
  /\ DirectoryAllowlist \in Allowlists
  /\ SkipWorkspaceCheck \in BOOLEAN
  /\ ws \in RunWorkSets
  /\ calls \in 1..MaxRuns
  /\ calls > 1 => ParallelRuns <= 1 /\ ws = OneDir
  /\ calls > 2 => ParallelRuns = 0 /\ SkipWorkspaceCheck
  /\ ParallelRuns > 2 => SkipWorkspaceCheck
  /\ ws = ThreeDirs => ParallelRuns <= 1
  /\ runNo = 1
  /\ runResult = Pending
  /\ NoFilterCall
  /\ NoMultiCall
  /\ undelivered = {}
  /\ pass = "drift"
  /\ now = CacheValidDuration
  /\ cache \in {Mixed, MixedShifted}
  /\ cache0 = cache
  /\ planned = [k \in KeySpace |-> NoPlan]
  /\ DriftedWorkspaceCount = 0
  /\ notifs = <<>>
  /\ klog = [k \in KeySpace |-> <<>>]
  /\ wcache = MixedW
  /\ wcache0 = wcache
  /\ dlog = [d \in AllDirs |-> <<>>]
  /\ listed = [d \in AllDirs |-> NotListed]
  /\ pc = [t \in Threads |-> IF t = Main THEN "checkout" ELSE "off"]
  /\ fpc = "off"
  /\ frv = Nil
  /\ rv = [t \in Threads |-> Nil]
  /\ cur = [t \in Threads |-> 0]
  /\ wi = [t \in Threads |-> 0]
  /\ stage = [t \in Threads |-> "none"]
  /\ pr = [t \in Threads |-> NoPlan]
  /\ remote = [t \in Threads |-> <<>>]
  /\ next = 1
  /\ closed = FALSE
  /\ cancelled = FALSE
  /\ egErr = Nil
  /\ result = Pending
  /\ started = <<>>
  /\ itemRes = [i \in 1..Len(runs) |-> Pending]

NextRun ==
  \/ CheckOutTerraformRepo
  \/ DrainDrifted
  \/ FindDriftedWorkspacesReturned
  \/ SkipCheck
  \/ Drain
  \/ FindExtraWorkspacesReturned
  \/ WorkspaceDriftSummary
  \/ DriftAgain
  \/ SeqNext
  \/ FeederSend
  \/ FeederDone
  \/ FeederPark
  \/ FeederClose
  \/ FeederExit
  \/ Wait
  \/ \E w \in Workers :
       \/ WorkerDone(w)
       \/ WorkerRecv(w)
       \/ WorkerRecvClosed(w)
       \/ WorkerPark(w)
       \/ WorkerExit(w)
  \/ \E t \in Threads :
       \/ GetDriftCheckResult(t)
       \/ DeleteDriftCheckResult(t)
       \/ PlanSummary(t)
       \/ StoreDriftCheckResult(t)
       \/ AddDriftedWorkspaceCount(t)
       \/ PlanDrift(t)
       \/ GetRemoteWorkspaces(t)
       \/ DeleteRemoteWorkspaces(t)
       \/ TerraformInit(t)
       \/ ListWorkspaces(t)
       \/ ExtraWorkspaceInRemote(t)
       \/ StoreRemoteWorkspaces(t)

SpecRun == InitRun /\ [][NextRun]_vars

----------------------------------------------------------------------------
(* Vocabulary of the properties *)

Returned == result # Pending
Items == 1..Len(runs)
ItemErrs == {itemRes[i] : i \in Items} \ {Nil, Pending}
AllStartedInOrder == started = [i \in Items |-> i]

ItemOf(k) == LET r == runs IN CHOOSE i \in 1..Len(r) : r[i] = k[1]
Idx(k) == CHOOSE j \in 1..Len(ws[k[1]]) : ws[k[1]][j] = k[2]
Live(k) == Declared(k) /\ ~shouldSkipDirectory(k[1])
Called(k, op) == \E n \in 1..Len(klog[k]) : klog[k][n] = op
Times(k, op) == Cardinality({n \in 1..Len(klog[k]) : klog[k][n] = op})
IsPrefix(s, full) == Len(s) <= Len(full) /\ s = SubSeq(full, 1, Len(s))
NotifiedFor(k) == \E n \in 1..Len(notifs) : notifs[n].dir = k[1] /\ notifs[n].w = k[2]
FailedAt(k, op) == Declared(k) /\ itemRes[ItemOf(k)] = Err(op, k[1], k[2])

FreshAtStart(k) == cache0[k].present /\ now - cache0[k].When < CacheValidDuration
StaleAtStart(k) == cache0[k].present /\ now - cache0[k].When >= CacheValidDuration
Drifted(k) == planned[k].kind = "ok" /\ planned[k].hasChanges /\ ~planned[k].locked

\* the check of k is over and the code went on: to the directory's next
\* workspace, or to the end of the item, which returned nil unless a later
\* workspace failed
WentOn(k) ==
  LET i == ItemOf(k)
      last == Idx(k) = Len(ws[k[1]])
      following == <<k[1], ws[k[1]][Idx(k) + 1]>>
  IN IF itemRes[i] = Pending
       THEN \E t \in Threads : cur[t] = i /\ wi[t] > Idx(k)
       ELSE IF last THEN itemRes[i] = Nil ELSE klog[following] # <<>>

----------------------------------------------------------------------------
(* C1: with ParallelRuns <= 1, drainAndExecute runs the items strictly in  *)
(* list order, one after the other; on the first item that returns a       *)
(* non-nil error it returns that error at once and no later item is run;   *)
(* if no item fails it returns nil after running every item exactly once.  *)
C1_SequentialInOrderStopsOnFirstError ==
  ParallelRuns <= 1 =>
    /\ \A n \in 1..Len(started) : started[n] = n
    /\ \A i \in Items : i < Len(started) => itemRes[i] = Nil
    /\ \A i \in Items : i > Len(started) => itemRes[i] = Pending
    /\ \A i \in Items : itemRes[i] \notin {Nil, Pending} => result = itemRes[i]
    /\ Returned /\ result # Nil => Len(started) >= 1 /\ result = itemRes[Len(started)]
    /\ Returned /\ result = Nil => AllStartedInOrder /\ \A i \in Items : itemRes[i] = Nil

C1_Witness ==
  /\ ParallelRuns <= 1 /\ Returned /\ result # Nil
  /\ 1 < Len(started) /\ Len(started) < Len(runs)

(* C2: with ParallelRuns > 1, drainAndExecute returns nil iff every item   *)
(* was executed exactly once and returned nil; when an item returned an    *)
(* error it returns a non-nil error that an item returned, never nil and   *)
(* never only the cancellation error of the feeder or of another worker.   *)
C2_ConcurrentResultIsAnItemError ==
  ParallelRuns > 1 /\ Returned =>
    /\ result = Nil <=> (AllStartedInOrder /\ \A i \in Items : itemRes[i] = Nil)
    /\ result \in ItemErrs \cup {Nil}
    /\ ItemErrs # {} => result \in ItemErrs

C2_Witness ==
  ParallelRuns > 1 /\ Returned /\ Cardinality(ItemErrs) >= 2 /\ result \in ItemErrs

(* C3: with ParallelRuns > 1, once the shared cancellation is signalled no *)
(* item that had not started is started, and an item in progress is left   *)
(* only by its own return.                                                 *)
C3_NoStartAfterCancel ==
  [][ (ParallelRuns > 1 /\ cancelled) =>
        /\ started' = started
        /\ \A w \in Workers :
             pc[w] = "item" =>
               \/ pc'[w] = "item" /\ cur'[w] = cur[w]
               \/ itemRes'[cur[w]] # Pending ]_vars

C3_Witness ==
  /\ ParallelRuns > 1 /\ cancelled
  /\ Len(started) < Len(runs)
  /\ \E w \in Workers : pc[w] = "item" /\ stage[w] # "get"

(* C4: when no fatal error occurs, the final Drift Counter, the set of     *)
(* PlanDrift notifications and the cache records are one function of the   *)
(* collaborators' answers, the same for every ParallelRuns and every       *)
(* interleaving of the workers, hence the same as with ParallelRuns = 1;   *)
(* no increment is lost.                                                   *)
ExpectedRecord(k) ==
  IF ~Live(k) \/ FreshAtStart(k) THEN cache0[k]
  ELSE IF planned[k].kind = "ok" THEN DriftCheckValue(now, planned[k].hasChanges)
  ELSE Absent

C4_OutcomeIndependentOfInterleaving ==
  Returned /\ result = Nil =>
    /\ \A k \in KeySpace : Live(k) /\ ~FreshAtStart(k) => planned[k] # NoPlan
    /\ DriftedWorkspaceCount = Cardinality({k \in KeySpace : Drifted(k)})
    /\ {<<notifs[n].dir, notifs[n].w>> : n \in 1..Len(notifs)} = {k \in KeySpace : Drifted(k)}
    /\ Len(notifs) = Cardinality({k \in KeySpace : Drifted(k)})
    /\ \A n \in 1..Len(notifs) : notifs[n].kind = "PlanDrift" /\ notifs[n].ok
    /\ \A k \in KeySpace : cache[k] = ExpectedRecord(k)

C4_Witness ==
  /\ ParallelRuns > 1 /\ Returned /\ result = Nil
  /\ DriftedWorkspaceCount = 2
  /\ notifs[1].dir = DirDE /\ notifs[2].dir = DirD

(* C5: a fresh record (age < CacheValidDuration) for (d, w): the check of  *)
(* (d, w) only looks the record up; it makes no plan query, no delete and  *)
(* no store, leaves the record and the Drift Counter as they are, sends no *)
(* notification and goes on with the next workspace of d.                  *)
C5_FreshRecordSkipsWorkspace ==
  \A k \in KeySpace :
    FreshAtStart(k) =>
      /\ klog[k] \in {<<>>, <<"get">>}
      /\ cache[k] = cache0[k]
      /\ planned[k] = NoPlan
      /\ ~NotifiedFor(k)
      /\ DriftedWorkspaceCount = Cardinality({j \in KeySpace \ {k} : Called(j, "add")})
      /\ klog[k] = <<"get">> => FailedAt(k, "get") \/ WentOn(k)

C5_Witness ==
  \E k \in KeySpace :
    /\ FreshAtStart(k) /\ klog[k] = <<"get">> /\ ~FailedAt(k, "get")
    /\ Idx(k) < Len(ws[k[1]]) /\ Called(<<k[1], ws[k[1]][Idx(k) + 1]>>, "plan")

(* C6: a stale record (age >= CacheValidDuration) for (d, w): the check    *)
(* deletes it and then makes the plan query, once; the delete comes before *)
(* the query; if the delete fails no query is made and the run fails.      *)
C6_StaleRecordDeletedBeforeQuery ==
  \A k \in KeySpace :
    StaleAtStart(k) =>
      /\ IsPrefix(klog[k], <<"get", "delete", "plan", "store", "add", "notify">>)
      /\ Called(k, "plan") => cache[k] # cache0[k]
      /\ Len(klog[k]) = 1 => FailedAt(k, "get") \/ (\E t \in Threads : cur[t] = ItemOf(k) /\ stage[t] = "delete")
      /\ Len(klog[k]) = 2 /\ ~FailedAt(k, "delete") =>
           cache[k] = Absent /\ \E t \in Threads : cur[t] = ItemOf(k) /\ stage[t] = "plan"
      /\ FailedAt(k, "delete") => ~Called(k, "plan") /\ (Returned => result # Nil)
      /\ Returned /\ result = Nil /\ Live(k) => Times(k, "delete") = 1 /\ Times(k, "plan") = 1

C6_Witness ==
  \E k \in KeySpace : StaleAtStart(k) /\ Returned /\ result = Nil /\ Called(k, "plan")

(* C7: a temporary PlanSummary error for (d, w) changes no counter, stores *)
(* no record for (d, w), sends no notification and does not abort: the     *)
(* check goes on with the other workspaces and directories, and the pass   *)
(* returns nil if nothing else fails.                                      *)
C7_TemporaryErrorIsLocal ==
  \A k \in KeySpace :
    planned[k].kind = "temporary" =>
      /\ klog[k][Len(klog[k])] = "plan"
      /\ ~Called(k, "store") /\ ~Called(k, "add") /\ ~NotifiedFor(k)
      /\ cache[k] = Absent
      /\ DriftedWorkspaceCount = Cardinality({j \in KeySpace \ {k} : Called(j, "add")})
      /\ ~FailedAt(k, "plan")
      /\ WentOn(k)
      /\ Returned /\ ItemErrs = {} =>
           result = Nil /\ \A j \in KeySpace : Live(j) => klog[j] # <<>>

C7_Witness ==
  \E k \in KeySpace :
    /\ planned[k].kind = "temporary" /\ Returned /\ result = Nil
    /\ \E j \in KeySpace : Declared(j) /\ ItemOf(j) > ItemOf(k) /\ Called(j, "store")

(* C8: a successful plan query that is locked and has changes: a record    *)
(* with Drift = TRUE is stored for (d, w), there is no PlanDrift           *)
(* notification and no increment of the Drift Counter.                     *)
LockedWithChanges(k) ==
  planned[k].kind = "ok" /\ planned[k].locked /\ planned[k].hasChanges

C8_LockedDriftStoredNotReported ==
  \A k \in KeySpace :
    LockedWithChanges(k) =>
      /\ klog[k][Len(klog[k])] \in {"plan", "store"}
      /\ klog[k][Len(klog[k])] = "plan" =>
           \E t \in Threads : cur[t] = ItemOf(k) /\ stage[t] = "store"
      /\ Called(k, "store") /\ ~FailedAt(k, "store") =>
           cache[k] = DriftCheckValue(now, TRUE) /\ WentOn(k)
      /\ ~NotifiedFor(k)
      /\ DriftedWorkspaceCount = Cardinality({j \in KeySpace \ {k} : Called(j, "add")})

C8_Witness ==
  \E k \in KeySpace :
    /\ LockedWithChanges(k) /\ cache[k] = DriftCheckValue(now, TRUE)
    /\ Returned /\ result = Nil

(* C9, as stated: when the pass has returned, the Drift Counter equals the *)
(* number of workspaces whose plan query succeeded with hasChanges and     *)
(* without lock.                                                           *)
C9_AsStated ==
  Returned => DriftedWorkspaceCount = Cardinality({k \in KeySpace : Drifted(k)})

(* C9, amended: the Drift Counter never decreases; it is incremented once  *)
(* for each workspace whose plan query succeeded with hasChanges and       *)
(* without lock and whose record was then stored, and for no other; when   *)
(* the pass has returned it equals the number of these workspaces and the  *)
(* number of PlanDrift notifications attempted.                            *)
Counted(k) == Drifted(k) /\ Called(k, "store") /\ ~FailedAt(k, "store")

C9_CounterCountsStoredDrift ==
  /\ [](/\ \A k \in KeySpace : Times(k, "add") <= 1
        /\ \A k \in KeySpace : Called(k, "add") => Counted(k)
        /\ DriftedWorkspaceCount = Cardinality({k \in KeySpace : Called(k, "add")})
        /\ Returned =>
             /\ DriftedWorkspaceCount = Cardinality({k \in KeySpace : Counted(k)})
             /\ DriftedWorkspaceCount = Len(notifs))
  /\ [][DriftedWorkspaceCount' >= DriftedWorkspaceCount]_vars

C9_Witness ==
  /\ Returned /\ DriftedWorkspaceCount = 1
  /\ \E k \in KeySpace : Drifted(k) /\ FailedAt(k, "store")

(* C10: in the reconciliation pass, for a directory that is not filtered   *)
(* and has no fresh record, the ExtraWorkspaceInRemote notifications are   *)
(* those of the listed remote workspaces that are neither declared for the *)
(* directory nor "default": one per such entry, in the order of the        *)
(* listing; nothing is notified for a declared workspace, for "default"    *)
(* or for a declared workspace the remote lacks.                           *)
FreshAtStartW(d) == wcache0[d].present /\ now - wcache0[d].When < CacheValidDuration
DeclaredIn(d) == {ws[d][i] : i \in 1..Len(ws[d])}
ExtrasOf(d, l) ==
  LET Extra(w) == w \notin DeclaredIn(d) \cup {"default"} IN SelectSeq(l, Extra)
NotifiedWs(d) ==
  LET About(n) == n.dir = d
      sel == SelectSeq(notifs, About)
  IN [i \in 1..Len(sel) |-> sel[i].w]
ItemOfDir(d) == LET r == runs IN CHOOSE i \in 1..Len(r) : r[i] = d

C10_ExtraWorkspacesNotified ==
  /\ \A n \in 1..Len(notifs) : notifs[n].kind = "ExtraWorkspaceInRemote"
  /\ \A d \in AllDirs :
       IF listed[d].kind = "ok"
         THEN /\ d \in DOMAIN ws /\ ~shouldSkipDirectory(d) /\ ~FreshAtStartW(d)
              /\ IsPrefix(NotifiedWs(d), ExtrasOf(d, listed[d].list))
              /\ itemRes[ItemOfDir(d)] # Pending /\ itemRes[ItemOfDir(d)].op # "notify"
                   => NotifiedWs(d) = ExtrasOf(d, listed[d].list)
         ELSE NotifiedWs(d) = <<>>

C10_Witness ==
  /\ ws = OneDir /\ listed[DirDE] = Listing(<<"a", "b", "c", "default">>)
  /\ Returned /\ result = Nil
  /\ notifs = << [kind |-> "ExtraWorkspaceInRemote", dir |-> DirDE, w |-> "c", ok |-> TRUE] >>

----------------------------------------------------------------------------
(* Vocabulary of the properties about a run *)

IsSummary(n) == n.kind = "WorkspaceDriftSummary"
Summaries == SelectSeq(notifs, IsSummary)
TotalWorkspaces == Cardinality({k \in KeySpace : Declared(k)})
DriftReturned == pc[Main] = "done"
PlanDriftsOfRun == Cardinality({n \in 1..Len(notifs) : notifs[n].kind = "PlanDrift"})

(* C11, as stated: a run of Drift that returns nil has emitted exactly one  *)
(* WorkspaceDriftSummary, as its last notification, after both passes, and  *)
(* the summary carries (driftedCount, undriftedCount, totalCount) with      *)
(* driftedCount the final Drift Counter, totalCount the number of declared  *)
(* workspaces and undriftedCount their difference; a run that fails has     *)
(* emitted no summary.                                                      *)
C11_SummaryCarriesThreeCounts ==
  /\ ~DriftReturned => Summaries = <<>>
  /\ DriftReturned /\ runResult # Nil => Summaries = <<>>
  /\ DriftReturned /\ runResult = Nil =>
       /\ Len(Summaries) = 1
       /\ IsSummary(notifs[Len(notifs)])
       /\ pass = "extra" /\ result = Nil
       /\ Summaries[1].args =
            << DriftedWorkspaceCount,
               TotalWorkspaces - DriftedWorkspaceCount,
               TotalWorkspaces >>

(* C12, as stated: every fatal error aborts the run: when an item of a     *)
(* pass returned an error the pass returns a non-nil error, when a pass     *)
(* returned an error Drift returns a non-nil error, and when a notification *)
(* delivery failed, the final WorkspaceDriftSummary included, Drift returns *)
(* a non-nil error; no failed step is made twice.                           *)
C12_EveryFatalErrorAborts ==
  /\ Returned /\ ItemErrs # {} => result # Nil
  /\ DriftReturned /\ result \notin {Nil, Pending} => runResult # Nil
  /\ DriftReturned /\ (\E n \in 1..Len(notifs) : ~notifs[n].ok) => runResult # Nil
  /\ \A k \in KeySpace : \A op \in {"get", "delete", "plan", "store", "notify"} :
       Times(k, op) <= 1

(* C13, as stated: every call of Drift begins with the Drift Counter at 0, *)
(* and the summary of a run reports the workspaces found drifted in that    *)
(* run only.                                                                *)
C13_CounterResetAtRunStart ==
  /\ pc[Main] = "checkout" => DriftedWorkspaceCount = 0
  /\ \A n \in 1..Len(Summaries) : Summaries[n].args[1] = PlanDriftsOfRun

----------------------------------------------------------------------------
(* Vocabulary of the comparison of the two branches of drainAndExecute.    *)
(* An item touches the keys of its own directory only, so with the same    *)
(* collaborator answers it returns the same value on either branch; the    *)
(* sequential branch then runs the items up to the first one, in list      *)
(* order, that returns an error, and returns that error.                   *)

Failing == {i \in Items : itemRes[i] \notin {Nil, Pending}}
FirstFailing == CHOOSE i \in Failing : \A j \in Failing : i <= j
SequentialItems == IF Failing = {} THEN Items ELSE 1..FirstFailing
SequentialResult == IF Failing = {} THEN Nil ELSE itemRes[FirstFailing]
KeysOf(I) == {k \in KeySpace : Declared(k) /\ ItemOf(k) \in I}

(* C14, as stated: for the same items and the same collaborator answers,   *)
(* some item failing or not, drainAndExecute with ParallelRuns > 1 ends    *)
(* with the outcome of the sequential branch: the same items executed, the *)
(* same cache writes, notifications and counter, the same result.          *)
C14_SameOutcomeAlsoOnFailure ==
  Returned =>
    /\ {started[n] : n \in 1..Len(started)} = SequentialItems
    /\ result = SequentialResult
    /\ \A k \in KeySpace \ KeysOf(SequentialItems) :
         klog[k] = <<>> /\ cache[k] = cache0[k] /\ ~NotifiedFor(k)
    /\ DriftedWorkspaceCount =
         Cardinality({k \in KeysOf(SequentialItems) : Called(k, "add")})

(* C14, amended: when no item fails, both branches run every item once and *)
(* return nil, and every item that returns nil has the effects its         *)
(* collaborators' answers determine (record, notification, count). When an *)
(* item fails, both branches return an error that an item returned; the    *)
(* items run are a prefix of the list that contains the first failing item *)
(* and every item before it: exactly that prefix with ParallelRuns <= 1,   *)
(* where the result is that item's error; possibly a longer one with       *)
(* ParallelRuns > 1, where the effects of the further items are kept.      *)
C14_SameOutcomeUnlessAnItemFails ==
  Returned =>
    /\ \A n \in 1..Len(started) : started[n] = n
    /\ \A i \in Items : itemRes[i] = Pending <=> i > Len(started)
    /\ \A k \in KeySpace :
         Declared(k) /\ itemRes[ItemOf(k)] = Nil =>
           /\ Live(k) /\ ~FreshAtStart(k) => planned[k] # NoPlan
           /\ cache[k] = ExpectedRecord(k)
           /\ NotifiedFor(k) <=> Drifted(k)
           /\ Called(k, "add") <=> Drifted(k)
    /\ DriftedWorkspaceCount = Cardinality({k \in KeySpace : Called(k, "add")})
    /\ Failing = {} => result = Nil /\ AllStartedInOrder
    /\ Failing # {} =>
         /\ result \in ItemErrs
         /\ Len(started) >= FirstFailing
         /\ ParallelRuns <= 1 => Len(started) = FirstFailing /\ result = itemRes[FirstFailing]

C14_Witness ==
  /\ ParallelRuns > 1 /\ Returned /\ Failing # {}
  /\ Len(started) > FirstFailing
  /\ result # itemRes[FirstFailing]
  /\ \E k \in KeySpace : Declared(k) /\ ItemOf(k) > FirstFailing /\ NotifiedFor(k)

----------------------------------------------------------------------------
(* The directory filter called with any directory and any allow-list *)

InitFilter ==
  /\ DirectoryAllowlist \in FilterAllowlists
  /\ skipDir \in FilterDirs
  /\ skipPc = "call"
  /\ skipRet = FALSE
  /\ NoMultiCall
  /\ undelivered = {}
  /\ ParallelRuns = 1
  /\ SkipWorkspaceCheck = FALSE
  /\ ws = EmptyWs
  /\ calls = 1 /\ runNo = 1 /\ runResult = Pending
  /\ pass = "drift"
  /\ now = CacheValidDuration
  /\ cache = [k \in KeySpace |-> Absent]
  /\ cache0 = cache
  /\ planned = [k \in KeySpace |-> NoPlan]
  /\ DriftedWorkspaceCount = 0
  /\ notifs = <<>>
  /\ klog = [k \in KeySpace |-> <<>>]
  /\ wcache = [d \in AllDirs |-> NoWorkspaces]
  /\ wcache0 = wcache
  /\ dlog = [d \in AllDirs |-> <<>>]
  /\ listed = [d \in AllDirs |-> NotListed]
  /\ pc = [t \in Threads |-> "off"]
  /\ fpc = "off"
  /\ frv = Nil
  /\ rv = [t \in Threads |-> Nil]
  /\ cur = [t \in Threads |-> 0]
  /\ wi = [t \in Threads |-> 0]
  /\ stage = [t \in Threads |-> "none"]
  /\ pr = [t \in Threads |-> NoPlan]
  /\ remote = [t \in Threads |-> <<>>]
  /\ next = 1
  /\ closed = FALSE
  /\ cancelled = FALSE
  /\ egErr = Nil
  /\ result = Pending
  /\ started = <<>>
  /\ itemRes = <<>>

NextFilter == CallShouldSkipDirectory

SpecFilter == InitFilter /\ [][NextFilter]_vars

\* p occurs in d: d is some bytes, then p, then some bytes
IsSubstring(p, d) ==
  \E before \in 0..Len(d) : \E after \in 0..Len(d) :
    /\ before + Len(p) + after = Len(d)
    /\ \A j \in 1..Len(p) : d[before + j] = p[j]

(* C15: shouldSkipDirectory(d) returns false for every d when the          *)
(* allow-list is empty; with a non-empty allow-list it returns false if    *)
(* and only if some entry of the allow-list is a substring of d, and true  *)
(* otherwise; the call changes nothing but its own return value.           *)
C15_SkipIffNoPatternIsSubstring ==
  /\ [](skipPc = "done" =>
          /\ Len(DirectoryAllowlist) = 0 => skipRet = FALSE
          /\ Len(DirectoryAllowlist) > 0 =>
               (skipRet = FALSE <=>
                  \E i \in 1..Len(DirectoryAllowlist) :
                    IsSubstring(DirectoryAllowlist[i], skipDir)))
  /\ [][skipPc = "call" /\ skipPc' = "done" =>
          UNCHANGED <<conf, skipDir, pass, runNo, runResult, ctl, feed, grp, shared>>]_vars

C15_Witness ==
  /\ skipPc = "done" /\ skipRet = FALSE
  /\ Len(DirectoryAllowlist) = 2
  /\ ~IsSubstring(DirectoryAllowlist[1], skipDir)
  /\ IsSubstring(DirectoryAllowlist[2], skipDir)
  /\ Len(DirectoryAllowlist[2]) = 2 /\ skipDir[1] # DirectoryAllowlist[2][1]

----------------------------------------------------------------------------
(* Vocabulary of the cache gate *)

StaleAtStartW(d) == wcache0[d].present /\ now - wcache0[d].When >= CacheValidDuration
DCalled(d, op) == \E n \in 1..Len(dlog[d]) : dlog[d][n] = op
FailedAtDir(d, op) ==
  pass = "extra" /\ d \in DOMAIN ws /\ itemRes[ItemOfDir(d)] = Err(op, d, "")
AtStage(k, st) ==
  \E t \in Threads : pc[t] = "item" /\ cur[t] = ItemOf(k) /\ wi[t] = Idx(k) /\ stage[t] = st
AtStageDir(d, st) ==
  \E t \in Threads : pc[t] = "item" /\ cur[t] = ItemOfDir(d) /\ stage[t] = st
Appends(log, op) ==
  Len(log') = Len(log) + 1 /\ log'[Len(log')] = op

(* C16: in both passes a record skips the work exactly when its age is     *)
(* smaller than CacheValidDuration: after the lookup of a fresh record no  *)
(* further call is made for the key, and after the lookup of a record of   *)
(* age CacheValidDuration or more the next call is the delete. A plan      *)
(* query is made, and terraform init and list are called, only in a state  *)
(* where the cache holds no record for the key.                            *)
C16_TrustedIffYoungerThanTTL ==
  /\ [](/\ \A k \in KeySpace :
             /\ FreshAtStart(k) => klog[k] \in {<<>>, <<"get">>} /\ cache[k] = cache0[k]
             /\ StaleAtStart(k) /\ Len(klog[k]) >= 2 => klog[k][2] = "delete"
             /\ StaleAtStart(k) /\ klog[k] = <<"get">> /\ pass = "drift" =>
                  FailedAt(k, "get") \/ AtStage(k, "delete")
        /\ \A d \in AllDirs :
             /\ FreshAtStartW(d) => dlog[d] \in {<<>>, <<"get">>} /\ wcache[d] = wcache0[d]
             /\ StaleAtStartW(d) /\ Len(dlog[d]) >= 2 => dlog[d][2] = "delete"
             /\ StaleAtStartW(d) /\ dlog[d] = <<"get">> =>
                  FailedAtDir(d, "get") \/ AtStageDir(d, "wdelete"))
  /\ [][ /\ \A k \in KeySpace :
              Appends(klog[k], "plan") => ~cache[k].present /\ ~cache'[k].present
         /\ \A d \in AllDirs :
              Appends(dlog[d], "init") \/ Appends(dlog[d], "list") =>
                ~wcache[d].present /\ ~wcache'[d].present ]_vars

C16_Witness ==
  /\ \E k \in KeySpace : StaleAtStart(k) /\ Called(k, "plan")
  /\ \E k \in KeySpace : FreshAtStart(k) /\ now - cache0[k].When = CacheValidDuration - 1
                           /\ klog[k] = <<"get">>
  /\ \E d \in AllDirs : StaleAtStartW(d) /\ now - wcache0[d].When = CacheValidDuration
                          /\ DCalled(d, "list")
  /\ \E d \in AllDirs : FreshAtStartW(d) /\ dlog[d] = <<"get">>

(* C17, as stated: after a temporary PlanSummary error for (d, w) the      *)
(* cache entry of (d, w) is what it was before the check: an absent entry  *)
(* is absent and a stale entry is still in the cache.                      *)
C17_TemporaryErrorLeavesEntryAsBefore ==
  \A k \in KeySpace :
    planned[k].kind = "temporary" => cache[k] = cache0[k]

(* C17, amended: after a temporary PlanSummary error for (d, w) the cache  *)
(* holds no entry for (d, w): an absent entry stays absent, and a stale    *)
(* entry was deleted before the query and is not put back; nothing is      *)
(* stored for (d, w).                                                      *)
C17_TemporaryErrorLeavesNoEntry ==
  \A k \in KeySpace :
    planned[k].kind = "temporary" =>
      /\ ~cache[k].present
      /\ ~FreshAtStart(k)
      /\ cache0[k].present => klog[k] = <<"get", "delete", "plan">>
      /\ ~cache0[k].present => klog[k] = <<"get", "plan">>

C17_Witness ==
  \E k \in KeySpace :
    /\ planned[k].kind = "temporary" /\ StaleAtStart(k)
    /\ ~cache[k].present /\ Returned /\ result = Nil

(* C18: a directory that shouldSkipDirectory says to skip is left alone by *)
(* both passes: no cache get, delete or store, no plan query, no terraform *)
(* init or list and no notification is made for it, no increment of the    *)
(* Drift Counter comes from it, and its item returns nil.                  *)
C18_FilteredDirectoryUntouched ==
  /\ [](\A d \in DOMAIN ws :
          shouldSkipDirectory(d) =>
            /\ \A w \in AllWorkspaces :
                 /\ klog[<<d, w>>] = <<>>
                 /\ planned[<<d, w>>] = NoPlan
                 /\ cache[<<d, w>>] = cache0[<<d, w>>]
            /\ dlog[d] = <<>>
            /\ listed[d] = NotListed
            /\ wcache[d] = wcache0[d]
            /\ \A n \in 1..Len(notifs) : notifs[n].dir # d
            /\ \A t \in Threads : pc[t] = "item" => Dir(t) # d
            /\ itemRes[ItemOfDir(d)] \in {Pending, Nil}
            /\ (\E n \in 1..Len(started) : started[n] = ItemOfDir(d)) =>
                 itemRes[ItemOfDir(d)] = Nil)
  /\ [][DriftedWorkspaceCount' # DriftedWorkspaceCount =>
          \E t \in Threads :
            /\ pc[t] = "item" /\ stage[t] = "add" /\ stage'[t] = "notify"
            /\ ~shouldSkipDirectory(Dir(t))]_vars

C18_Witness ==
  /\ pass = "extra" /\ Returned /\ result = Nil
  /\ \E d \in DOMAIN ws :
       /\ shouldSkipDirectory(d)
       /\ itemRes[ItemOfDir(d)] = Nil
       /\ StaleAtStartW(d)
  /\ \E k \in KeySpace : Called(k, "notify")

----------------------------------------------------------------------------
(* Vocabulary of the reconciliation *)

DTimes(d, op) == Cardinality({n \in 1..Len(dlog[d]) : dlog[d][n] = op})
NotifsOf(d) == LET About(n) == n.dir = d IN SelectSeq(notifs, About)
AllDelivered(d) == \A n \in 1..Len(notifs) : notifs[n].dir = d => notifs[n].ok
ItemResOfDir(d) == itemRes[ItemOfDir(d)]

(* C19: in the reconciliation pass, for a directory that is not filtered   *)
(* and has no fresh record, StoreRemoteWorkspaces is called exactly when   *)
(* init, the listing and every ExtraWorkspaceInRemote notification have    *)
(* succeeded, with zero extras too; it is the last call for the directory, *)
(* after all its notifications, and stores the full listing with the       *)
(* current time; when init, the listing or a notification fails no store   *)
(* is called and the cache holds no record for the directory.              *)
C19_ListingStoredAfterNotifications ==
  \A d \in DOMAIN ws :
    LET res == ItemResOfDir(d)
        extras == ExtrasOf(d, listed[d].list)
        sent == NotifiedWs(d)
        stored == DCalled(d, "store")
    IN /\ stored =>
            /\ dlog[d][Len(dlog[d])] = "store" /\ DTimes(d, "store") = 1
            /\ DCalled(d, "init") /\ listed[d].kind = "ok"
            /\ sent = extras /\ AllDelivered(d)
            /\ DTimes(d, "notify") = Len(extras)
            /\ res \in {Nil, Err("store", d, "")}
       /\ res = Nil /\ ~shouldSkipDirectory(d) /\ ~FreshAtStartW(d) =>
            /\ stored
            /\ wcache[d] = WorkspacesCheckedValue(now, listed[d].list)
       /\ res \notin {Nil, Pending} =>
            /\ \/ ~wcache[d].present
               \/ wcache[d] = wcache0[d] /\ dlog[d] \in {<<"get">>, <<"get", "delete">>}
            /\ res.op \in {"init", "list", "notify"} => ~stored
       /\ res = Pending /\ listed[d].kind = "ok" /\ ~stored =>
            IF sent = extras /\ AllDelivered(d)
              THEN AtStageDir(d, "wstore")
              ELSE AtStageDir(d, "extra") \/ ~AllDelivered(d)

C19_Witness ==
  \E d \in DOMAIN ws :
    /\ listed[d] = Listing(<<"default", "a">>)
    /\ NotifsOf(d) = <<>>
    /\ wcache[d] = WorkspacesCheckedValue(now, <<"default", "a">>)
    /\ StaleAtStartW(d)

----------------------------------------------------------------------------
(* Vocabulary of the order of the work *)

DirLE(a, b) == a = b \/ LexLess(a, b)
DirsNotified(kind) == {notifs[n].dir : n \in {m \in 1..Len(notifs) : notifs[m].kind = kind}}

(* C20: the work list of a pass holds one item per directory, in byte-wise *)
(* sorted order of the directory names, and items are started in list      *)
(* order; inside an item the workspaces are checked one after the other in *)
(* declared order. Hence with ParallelRuns <= 1 the PlanDrift and the      *)
(* ExtraWorkspaceInRemote notifications come in sorted directory order,    *)
(* and within a directory in declared order and in listing order.          *)
C20_SortedDirectoriesDeclaredWorkspaces ==
  /\ Len(runs) = Cardinality(DOMAIN ws)
  /\ {runs[i] : i \in Items} = DOMAIN ws
  /\ \A i \in Items : \A j \in Items : i < j => LexLess(runs[i], runs[j])
  /\ \A n \in 1..Len(started) : started[n] = n
  /\ \A t \in Threads :
       pass = "drift" /\ pc[t] = "item" =>
         \A j \in 1..Len(ws[Dir(t)]) :
           j > wi[t] => klog[<<Dir(t), ws[Dir(t)][j]>>] = <<>>
  /\ ParallelRuns <= 1 =>
       /\ \A n \in 1..Len(notifs) : \A m \in 1..Len(notifs) :
            n < m /\ notifs[n].kind = notifs[m].kind /\ ~IsSummary(notifs[n]) =>
              /\ DirLE(notifs[n].dir, notifs[m].dir)
              /\ notifs[n].dir = notifs[m].dir /\ notifs[n].kind = "PlanDrift" =>
                   Idx(<<notifs[n].dir, notifs[n].w>>) < Idx(<<notifs[m].dir, notifs[m].w>>)
       /\ \A d \in DOMAIN ws :
            listed[d].kind = "ok" =>
              LET Extra(n) == n.dir = d /\ n.kind = "ExtraWorkspaceInRemote"
                  sel == SelectSeq(notifs, Extra)
              IN IsPrefix([i \in 1..Len(sel) |-> sel[i].w], ExtrasOf(d, listed[d].list))

C20_Witness ==
  /\ ParallelRuns <= 1
  /\ Cardinality(DirsNotified("PlanDrift")) >= 2
  /\ Cardinality(DirsNotified("ExtraWorkspaceInRemote")) >= 2
  /\ \E d \in DOMAIN ws : Len(NotifsOf(d)) >= 3

----------------------------------------------------------------------------
(* One call of a method of a Multi built from any list of sinks *)

InitMulti ==
  /\ Notifications \in SeqsUpTo(SinkNames, MaxSinks)
  /\ mCall \in MultiCalls
  /\ mPc = "loop"
  /\ mLog = <<>>
  /\ mRet = Pending
  /\ undelivered = {}
  /\ NoFilterCall
  /\ DirectoryAllowlist = <<>>
  /\ ParallelRuns = 1
  /\ SkipWorkspaceCheck = FALSE
  /\ ws = EmptyWs
  /\ calls = 1 /\ runNo = 1 /\ runResult = Pending
  /\ pass = "drift"
  /\ now = CacheValidDuration
  /\ cache = [k \in KeySpace |-> Absent]
  /\ cache0 = cache
  /\ planned = [k \in KeySpace |-> NoPlan]
  /\ DriftedWorkspaceCount = 0
  /\ notifs = <<>>
  /\ klog = [k \in KeySpace |-> <<>>]
  /\ wcache = [d \in AllDirs |-> NoWorkspaces]
  /\ wcache0 = wcache
  /\ dlog = [d \in AllDirs |-> <<>>]
  /\ listed = [d \in AllDirs |-> NotListed]
  /\ pc = [t \in Threads |-> "off"]
  /\ fpc = "off"
  /\ frv = Nil
  /\ rv = [t \in Threads |-> Nil]
  /\ cur = [t \in Threads |-> 0]
  /\ wi = [t \in Threads |-> 0]
  /\ stage = [t \in Threads |-> "none"]
  /\ pr = [t \in Threads |-> NoPlan]
  /\ remote = [t \in Threads |-> <<>>]
  /\ next = 1
  /\ closed = FALSE
  /\ cancelled = FALSE
  /\ egErr = Nil
  /\ result = Pending
  /\ started = <<>>
  /\ itemRes = <<>>

NextMulti ==
  \/ MultiTemporaryError
  \/ MultiExtraWorkspaceInRemote
  \/ MultiMissingWorkspaceInRemote
  \/ MultiPlanDrift
  \/ MultiWorkspaceDriftSummary

SpecMulti == InitMulti /\ [][NextMulti]_vars

\* the sinks that have been called returned nil, except possibly the last
OnlyLastMayFail == \A n \in 1..Len(mLog) : n < Len(mLog) => mLog[n].ret = Nil

\* C21: Multi calls its sinks in list order, each with the method and the
\* arguments it was called with itself, and stops at the first failure: no
\* sink is called after one that returned an error, the method returns that
\* first error, and it returns nil exactly when every sink of the list was
\* called and returned nil (always, for the empty list); this for each of the
\* five notification methods.
C21_MultiInListOrderStopsAtFirstFailure ==
  /\ Len(mLog) <= Len(Notifications)
  /\ \A n \in 1..Len(mLog) :
       /\ mLog[n].pos = n
       /\ mLog[n].sink = Notifications[n]
       /\ mLog[n].kind = mCall.kind
       /\ mLog[n].args = mCall.args
  /\ OnlyLastMayFail
  /\ mPc = "loop" => mRet = Pending /\ \A n \in 1..Len(mLog) : mLog[n].ret = Nil
  /\ mPc = "done" =>
       /\ mRet # Pending
       /\ mRet = Nil <=>
            /\ Len(mLog) = Len(Notifications)
            /\ \A n \in 1..Len(mLog) : mLog[n].ret = Nil
       /\ mRet # Nil =>
            /\ Len(mLog) >= 1
            /\ mRet = mLog[Len(mLog)].ret
            /\ mRet = SinkError(Len(mLog))

\* the second of three sinks failed in a summary call: the third was not called
C21_Witness ==
  /\ mPc = "done"
  /\ mCall.kind = "WorkspaceDriftSummary"
  /\ Len(Notifications) = MaxSinks
  /\ Len(mLog) = 2
  /\ mLog[1].ret = Nil
  /\ mRet = SinkError(2)

----------------------------------------------------------------------------
(* The concurrent branch of drainAndExecute under a fair scheduler *)

InitLive ==
  /\ Init
  /\ ParallelRuns > 1
  /\ cache = Mixed
  /\ ParallelRuns > 2 => ws # ThreeDirs

NextLive ==
  \/ FeederSend
  \/ FeederDone
  \/ FeederPark
  \/ FeederClose
  \/ FeederExit
  \/ Wait
  \/ \E w \in Workers :
       \/ WorkerDone(w)
       \/ WorkerRecv(w)
       \/ WorkerRecvClosed(w)
       \/ WorkerPark(w)
       \/ WorkerExit(w)
  \/ \E t \in Threads :
       \/ GetDriftCheckResult(t)
       \/ DeleteDriftCheckResult(t)
       \/ PlanSummary(t)
       \/ StoreDriftCheckResult(t)
       \/ AddDriftedWorkspaceCount(t)
       \/ PlanDrift(t)

\* The Go scheduler runs some runnable goroutine, and every collaborator call
\* of an item returns: as long as a step is possible, one is taken.
SpecLive == InitLive /\ [][NextLive]_vars /\ WF_vars(NextLive)

\* C22: with ParallelRuns > 1 and items that terminate, drainAndExecute
\* returns in every execution: the feeder and the workers are never left
\* blocked on the unbuffered channel, whether an item fails while the feeder
\* waits to send, all workers have returned an error with items left to send,
\* the list is empty, or there are fewer items than workers. When it returns,
\* the feeder and every worker goroutine have exited.
C22_ConcurrentDrainAlwaysReturns ==
  /\ <>Returned
  /\ [](Returned => fpc = "exit" /\ \A w \in Workers : pc[w] = "exit")

\* drainAndExecute returned an error although items were never sent: every
\* worker had returned the error of its item and the feeder left through Done
C22_Witness ==
  /\ Returned
  /\ ParallelRuns > 1
  /\ next <= Len(runs)
  /\ frv = Canceled
  /\ \A w \in Workers : rv[w] \notin {Nil, Canceled}

----------------------------------------------------------------------------
(* Vocabulary of the order of the calls made for one workspace *)

\* in the calls made for k, every call b comes after some call a
Before(k, a, b) ==
  \A n \in 1..Len(klog[k]) :
    klog[k][n] = b => \E m \in 1..(n - 1) : klog[k][m] = a

PlanDriftSent(k) ==
  \E n \in 1..Len(notifs) :
    notifs[n].kind = "PlanDrift" /\ notifs[n].dir = k[1] /\ notifs[n].w = k[2]

PlanDriftFailed(k) ==
  \E n \in 1..Len(notifs) :
    /\ notifs[n].kind = "PlanDrift" /\ ~notifs[n].ok
    /\ notifs[n].dir = k[1] /\ notifs[n].w = k[2]

\* the run has not touched k beyond looking its record up
OnlyLookedUp(k) ==
  /\ klog[k] \in {<<>>, <<"get">>}
  /\ planned[k] = NoPlan
  /\ cache[k] = cache0[k]
  /\ ~PlanDriftSent(k)

\* C23: for a workspace whose plan query succeeded the record is stored
\* first, whatever the lock state: the store is the call after the plan
\* query, and the increment and the PlanDrift notification are made only
\* after it, in this order. So once a PlanDrift delivery has failed, the
\* cache holds a record of this moment with Drift = true and the counter
\* has been incremented; and in the next call of Drift the record is there
\* from the start and, while it is younger than CacheValidDuration, the
\* workspace is only looked up: no plan query, no store, no PlanDrift.
C23_StoreBeforeLockCountNotify ==
  /\ \A k \in KeySpace : Declared(k) =>
       /\ Before(k, "plan", "store")
       /\ Before(k, "store", "add")
       /\ Before(k, "add", "notify")
       /\ Called(k, "store") => planned[k].kind = "ok"
       /\ planned[k].kind = "ok" =>
            Called(k, "store") \/ (pass = "drift" /\ AtStage(k, "store"))
       /\ planned[k].kind = "ok" /\ planned[k].locked /\ Called(k, "store") =>
            /\ ~Called(k, "add") /\ ~Called(k, "notify")
            /\ FailedAt(k, "store") \/ cache[k] = DriftCheckValue(now, planned[k].hasChanges)
       /\ PlanDriftFailed(k) =>
            /\ cache[k] = DriftCheckValue(now, TRUE)
            /\ Fresh(cache[k])
            /\ Times(k, "add") = 1
  /\ DriftedWorkspaceCount >= PlanDriftsOfRun
  /\ \A k \in undelivered :
       /\ runNo > 1
       /\ DriftedWorkspaceCount >= 1
       /\ cache0[k].present /\ cache0[k].Drift
       /\ FreshAtStart(k) => OnlyLookedUp(k)

\* a second call of Drift, made within the TTL of the record, went through
\* to its summary and only looked up the workspace whose PlanDrift
\* delivery had failed in the first call
C23_Witness ==
  /\ runNo = 2 /\ DriftReturned /\ runResult = Nil
  /\ \E k \in undelivered : FreshAtStart(k) /\ klog[k] = <<"get">>

====
